---- MODULE Spec2Model ----
(***************************************************************************)
(* Shared-expense splitting, settlement and balance logic of the finance   *)
(* tracker: SplitwiseService (src/project/src/lib/splitwise.ts), the       *)
(* tables, row-level-security policies and calculate_user_balance of the   *)
(* database migrations, and the settle-up dialog that drives them.         *)
(*                                                                         *)
(* Amounts are integers counted in units of 0.0001 currency units          *)
(* (100 units make 0.01).           A division result is rounded to the    *)
(* nearest unit; this is coarser than the rounding of the IEEE-754 double  *)
(* the code computes with, so a tolerance that holds here holds there.     *)
(***************************************************************************)
EXTENDS Integers, Sequences, FiniteSets, TLC

VARIABLES
    expenses,       \* table shared_expenses: id -> row
    participants,   \* table expense_participants: set of rows
    settlements,    \* table settlements: id -> row
    now,            \* the database clock
    last,           \* what the last service call or UI handler reported
    settleUpData,   \* per user: the participant the settle-up dialog shows
    calc,           \* a split request and the rows computed for it
    investments,    \* table investments of one user: id -> row
    refresh,        \* one run of the update-stock-prices function
    form            \* the shared-expense form of the page's modal

vars == <<expenses, participants, settlements, now, last, settleUpData, calc,
          investments, refresh, form>>

----------------------------------------------------------------------------
(* Bounds of the model                                                     *)

MaxExpenses == 1
MaxSettlements == 1
MaxTime == 3

(* Program constants                                                       *)

\* 0.01, the absolute tolerance of a split, in units of 0.0001
Tolerance == 100
\* the divisor of a percentage
PercentBase == 100

----------------------------------------------------------------------------
(* Optional values: None is JavaScript undefined / SQL NULL                 *)

None == <<>>
Some(v) == <<v>>
IsSome(o) == o # None
Val(o) == o[1]

(* Accounts.  A registered user is identified with its e-mail; a guest is  *)
(* an e-mail address of a friend who has no account.                       *)
Users == {"a", "b"}
Guests == {}
Emails == Users \cup Guests
DisplayNames(e) == {e}

Methods == {"equal", "percentage", "custom", "shares"}

\* 100.00, and 0 which the table's CHECK refuses
Totals == {0, 1000000}
Percentages == {50, 100}
\* 0 is a share count the table's CHECK (shares > 0) refuses
ShareCounts == {0, 1, 2}
CustomAmounts == {500000, 1000000}
\* an amount a caller of settleExpense may pass besides the amount owed
PaidAmounts == {0}

ExpenseIds == 1..MaxExpenses
MaxParticipants == Cardinality(Emails)
PidPool == 1..(MaxExpenses * MaxParticipants + MaxParticipants + Cardinality(Users))
SettlementIds == 1..MaxSettlements

----------------------------------------------------------------------------
(* Arithmetic                                                              *)

\* a / b of the code, rounded to the nearest unit (b > 0)
Div(a, b) == (2 * a + b) \div (2 * b)

Abs(x) == IF x < 0 THEN 0 - x ELSE x

RECURSIVE SumSeq(_)
SumSeq(s) == IF s = <<>> THEN 0 ELSE Head(s) + SumSeq(Tail(s))

RECURSIVE SumNet(_)
\* SUM(amount_owed - amount_paid) over a set of participant rows
SumNet(rows) ==
    IF rows = {} THEN 0
    ELSE LET r == CHOOSE r \in rows : TRUE
         IN  (r.amount_owed - r.amount_paid) + SumNet(rows \ {r})

RECURSIVE SumOwed(_)
SumOwed(rows) ==
    IF rows = {} THEN 0
    ELSE LET r == CHOOSE r \in rows : TRUE
         IN  r.amount_owed + SumOwed(rows \ {r})

\* a missing count read as 2
OrTwo(o) == IF IsSome(o) /\ Val(o) # 0 THEN Val(o) ELSE 2

\* JavaScript  x || 0  and  x || 1  on an optional number
OrZero(o) == IF IsSome(o) THEN Val(o) ELSE 0
OrOne(o) == IF IsSome(o) /\ Val(o) # 0 THEN Val(o) ELSE 1

----------------------------------------------------------------------------
(* SplitCalculator                                                         *)

\* shares divided by the number of participants, not by the shares' sum
calculateParticipantAmountsPerHead(ps, totalAmount, splitMethod) ==
    CASE splitMethod = "equal" ->
            [i \in 1..Len(ps) |->
                [ps[i] EXCEPT !.amount_owed = Some(Div(totalAmount, Len(ps)))]]
      [] splitMethod = "percentage" ->
            [i \in 1..Len(ps) |->
                [ps[i] EXCEPT !.amount_owed =
                    Some(Div(totalAmount * OrZero(ps[i].percentage), PercentBase))]]
      [] splitMethod = "shares" ->
            [i \in 1..Len(ps) |->
                [ps[i] EXCEPT !.amount_owed =
                    Some(Div(totalAmount * OrOne(ps[i].shares), Len(ps)))]]
      [] splitMethod = "custom" ->
            [i \in 1..Len(ps) |->
                [ps[i] EXCEPT !.amount_owed = Some(OrZero(ps[i].amount_owed))]]
      [] OTHER -> ps

\* shares whose total is summed from 1 instead of 0
calculateParticipantAmountsSeeded(ps, totalAmount, splitMethod) ==
    CASE splitMethod = "equal" ->
            [i \in 1..Len(ps) |->
                [ps[i] EXCEPT !.amount_owed = Some(Div(totalAmount, Len(ps)))]]
      [] splitMethod = "percentage" ->
            [i \in 1..Len(ps) |->
                [ps[i] EXCEPT !.amount_owed =
                    Some(Div(totalAmount * OrZero(ps[i].percentage), PercentBase))]]
      [] splitMethod = "shares" ->
            LET totalShares == 1 + SumSeq([i \in 1..Len(ps) |-> OrOne(ps[i].shares)])
            IN  [i \in 1..Len(ps) |->
                    [ps[i] EXCEPT !.amount_owed =
                        Some(Div(totalAmount * OrOne(ps[i].shares), totalShares))]]
      [] splitMethod = "custom" ->
            [i \in 1..Len(ps) |->
                [ps[i] EXCEPT !.amount_owed = Some(OrZero(ps[i].amount_owed))]]
      [] OTHER -> ps

\* percentages taken relative to their sum instead of to 100
calculateParticipantAmountsNormalized(ps, totalAmount, splitMethod) ==
    CASE splitMethod = "equal" ->
            [i \in 1..Len(ps) |->
                [ps[i] EXCEPT !.amount_owed = Some(Div(totalAmount, Len(ps)))]]
      [] splitMethod = "percentage" ->
            LET sum == SumSeq([i \in 1..Len(ps) |-> OrZero(ps[i].percentage)])
            IN  [i \in 1..Len(ps) |->
                    [ps[i] EXCEPT !.amount_owed =
                        Some(IF sum = 0 THEN 0
                             ELSE Div(totalAmount * OrZero(ps[i].percentage), sum))]]
      [] splitMethod = "shares" ->
            LET totalShares == SumSeq([i \in 1..Len(ps) |-> OrOne(ps[i].shares)])
            IN  [i \in 1..Len(ps) |->
                    [ps[i] EXCEPT !.amount_owed =
                        Some(Div(totalAmount * OrOne(ps[i].shares), totalShares))]]
      [] splitMethod = "custom" ->
            [i \in 1..Len(ps) |->
                [ps[i] EXCEPT !.amount_owed = Some(OrZero(ps[i].amount_owed))]]
      [] OTHER -> ps

\* an equal split that keeps an amount the participant came with
calculateParticipantAmountsKeepingGiven(ps, totalAmount, splitMethod) ==
    CASE splitMethod = "equal" ->
            [i \in 1..Len(ps) |->
                [ps[i] EXCEPT !.amount_owed = IF IsSome(ps[i].amount_owed) THEN @
                                               ELSE Some(Div(totalAmount, Len(ps)))]]
      [] splitMethod = "percentage" ->
            [i \in 1..Len(ps) |->
                [ps[i] EXCEPT !.amount_owed =
                    Some(Div(totalAmount * OrZero(ps[i].percentage), PercentBase))]]
      [] splitMethod = "shares" ->
            LET totalShares == SumSeq([i \in 1..Len(ps) |-> OrOne(ps[i].shares)])
            IN  [i \in 1..Len(ps) |->
                    [ps[i] EXCEPT !.amount_owed =
                        Some(Div(totalAmount * OrOne(ps[i].shares), totalShares))]]
      [] splitMethod = "custom" ->
            [i \in 1..Len(ps) |->
                [ps[i] EXCEPT !.amount_owed = Some(OrZero(ps[i].amount_owed))]]
      [] OTHER -> ps

\* custom amounts capped at the total
calculateParticipantAmountsCapped(ps, totalAmount, splitMethod) ==
    CASE splitMethod = "equal" ->
            [i \in 1..Len(ps) |->
                [ps[i] EXCEPT !.amount_owed = Some(Div(totalAmount, Len(ps)))]]
      [] splitMethod = "percentage" ->
            [i \in 1..Len(ps) |->
                [ps[i] EXCEPT !.amount_owed =
                    Some(Div(totalAmount * OrZero(ps[i].percentage), PercentBase))]]
      [] splitMethod = "shares" ->
            LET totalShares == SumSeq([i \in 1..Len(ps) |-> OrOne(ps[i].shares)])
            IN  [i \in 1..Len(ps) |->
                    [ps[i] EXCEPT !.amount_owed =
                        Some(Div(totalAmount * OrOne(ps[i].shares), totalShares))]]
      [] splitMethod = "custom" ->
            [i \in 1..Len(ps) |->
                [ps[i] EXCEPT !.amount_owed = Some(IF OrZero(ps[i].amount_owed) > totalAmount
                                                    THEN totalAmount
                                                    ELSE OrZero(ps[i].amount_owed))]]
      [] OTHER -> ps

calculateParticipantAmounts(ps, totalAmount, splitMethod) ==
    CASE splitMethod = "equal" ->
            [i \in 1..Len(ps) |->
                [ps[i] EXCEPT !.amount_owed = Some(Div(totalAmount, Len(ps)))]]
      [] splitMethod = "percentage" ->
            [i \in 1..Len(ps) |->
                [ps[i] EXCEPT !.amount_owed =
                    Some(Div(totalAmount * OrZero(ps[i].percentage), PercentBase))]]
      [] splitMethod = "shares" ->
            LET totalShares == SumSeq([i \in 1..Len(ps) |-> OrOne(ps[i].shares)])
            IN  [i \in 1..Len(ps) |->
                    [ps[i] EXCEPT !.amount_owed =
                        Some(Div(totalAmount * OrOne(ps[i].shares), totalShares))]]
      [] splitMethod = "custom" ->
            [i \in 1..Len(ps) |->
                [ps[i] EXCEPT !.amount_owed = Some(OrZero(ps[i].amount_owed))]]
      [] OTHER -> ps

----------------------------------------------------------------------------
(* Inputs of the service calls                                             *)

Rank(e) == CASE e = "a" -> 1 [] e = "b" -> 2 [] OTHER -> 3

\* participant lists name each e-mail at most once
EmailLists ==
    { el \in UNION { [1..n -> Emails] : n \in 1..MaxParticipants } :
        \A i, j \in 1..Len(el) : i < j => Rank(el[i]) < Rank(el[j]) }

\* one element of the participants argument; o is the field the method reads
ParticipantInput(e, method, o) ==
    [ user_email  |-> e,
      user_name   |-> CHOOSE n \in DisplayNames(e) : TRUE,
      amount_owed |-> IF method = "custom" THEN o ELSE None,
      percentage  |-> IF method = "percentage" THEN o ELSE None,
      shares      |-> IF method = "shares" THEN o ELSE None ]

InputValues(method) ==
    CASE method = "percentage" -> Percentages
      [] method = "shares" -> ShareCounts
      [] method = "custom" -> CustomAmounts
      [] OTHER -> {0}

ParticipantInputs(method) ==
    UNION { { [i \in 1..Len(el) |-> ParticipantInput(el[i], method, Some(v[i]))] :
                v \in [1..Len(el) -> InputValues(method)] } :
            el \in EmailLists }

\* the argument of createSharedExpense and updateSharedExpense
Requests ==
    UNION { { [total |-> t, method |-> m, ps |-> ps] : ps \in ParticipantInputs(m) } :
            t \in Totals, m \in Methods }

\* equal splits of 100.00
EqualRequests == { rq \in Requests : rq.method = "equal" /\ rq.total > 0 }

\* SharedExpenseForm.validateSplit on a non-empty list: whole percentages
\* within 0.01 of 100 sum to 100, custom amounts are within 0.01 of the total
ValidSplit(total, method, ps) ==
    /\ total > 0
    /\ Len(ps) > 0
    /\ method = "percentage" =>
          SumSeq([i \in 1..Len(ps) |-> OrZero(ps[i].percentage)]) = PercentBase
    /\ method = "custom" =>
          Abs(SumSeq([i \in 1..Len(ps) |-> OrZero(ps[i].amount_owed)]) - total)
            <= Tolerance

----------------------------------------------------------------------------
(* The database: constraints and row-level security.  A statement touches  *)
(* the rows that the policies of its own command admit; a statement that   *)
(* matches no row is not an error.  The creator of an expense is taken to  *)
(* see its participant records, as the page that lists them does.          *)

\* CHECK (total_amount > 0)
SharedExpenseCheck(total) == total > 0

\* CHECKs of expense_participants
ParticipantCheck(r) ==
    /\ r.amount_owed >= 0
    /\ r.amount_paid >= 0
    /\ IsSome(r.percentage) => (Val(r.percentage) >= 0 /\ Val(r.percentage) <= 100)
    /\ IsSome(r.shares) => Val(r.shares) > 0

\* EXISTS (SELECT 1 FROM shared_expenses se WHERE se.id = shared_expense_id
\*         AND se.created_by = auth.uid())
IsCreator(u, e) == e \in DOMAIN expenses /\ expenses[e].created_by = u

\* policies "Users can update shared expenses they created" and
\* "Users can delete shared expenses they created"
CanWriteExpense(u, e) == IsCreator(u, e)

\* policy "Users can insert participant records for expenses they created"
CanInsertParticipant(u, e) == IsCreator(u, e)

\* policies "Users can update their own participant records" and
\* "Expense creators can update all participant records"
CanUpdateParticipant(u, r) ==
    r.user_email = u \/ IsCreator(u, r.shared_expense_id)

\* policies "Users can delete their own participant records" and
\* "Expense creators can delete participant records"
CanDeleteParticipant(u, r) ==
    r.user_email = u \/ IsCreator(u, r.shared_expense_id)

ParticipantsOf(e) == { r \in participants : r.shared_expense_id = e }

\* gen_random_uuid(): an id that no stored row and no open dialog holds
HeldPids ==
    { r.id : r \in participants } \cup
    { Val(settleUpData[u]).participantId : u \in { w \in Users : IsSome(settleUpData[w]) } }

RECURSIVE FreshPids(_, _)
FreshPids(n, held) ==
    IF n = 0 THEN <<>>
    ELSE LET id == CHOOSE i \in PidPool \ held :
                       \A j \in PidPool \ held : i <= j
         IN  <<id>> \o FreshPids(n - 1, held \cup {id})

FreshExpenseId == CHOOSE i \in ExpenseIds \ DOMAIN expenses :
                      \A j \in ExpenseIds \ DOMAIN expenses : i <= j

\* the rows createSharedExpense and updateSharedExpense insert
participantData(e, ps, ids) ==
    { [ id                |-> ids[i],
        shared_expense_id |-> e,
        user_email        |-> ps[i].user_email,
        user_name         |-> ps[i].user_name,
        amount_owed       |-> OrZero(ps[i].amount_owed),
        amount_paid       |-> 0,
        percentage        |-> ps[i].percentage,
        shares            |-> ps[i].shares,
        is_settled        |-> FALSE ] : i \in 1..Len(ps) }

----------------------------------------------------------------------------
(* What a call reports to its caller                                       *)

NotifyOutcomes == {"sent", "no_session", "http_error", "send_failure"}

Report(op, ok, notified) == [ op |-> op, ok |-> ok, notified |-> notified ]

\* percentages, customAmounts and shares of a form nobody typed into
NoEntries == [e \in {} |-> 0]

\* the page's modal is closed: no SharedExpenseForm is mounted
Closed ==
    [ open |-> FALSE, user |-> None, expense |-> None, selectedFriends |-> <<>>,
      splitMethod |-> "equal", total |-> 0, percentages |-> NoEntries,
      customAmounts |-> NoEntries, shares |-> NoEntries ]

\* no run of the price refresh has started
Idle ==
    [ i |-> 0, loaded |-> <<>>, symbols |-> <<>>, results |-> <<>>,
      requests |-> <<>>, clock |-> 0, pausing |-> FALSE, response |-> None ]

Init ==
    /\ expenses = <<>>
    /\ participants = {}
    /\ settlements = <<>>
    /\ now = 0
    /\ last = Report("none", TRUE, <<>>)
    /\ settleUpData = [u \in Users |-> None]
    /\ calc = [rq |-> None, rows |-> None]
    /\ investments = <<>>
    /\ refresh = Idle
    /\ form = Closed

----------------------------------------------------------------------------
(* SplitwiseService.createSharedExpense                                    *)

SharedExpenseRow(u, total, method) ==
    [ created_by |-> u, total_amount |-> total, split_method |-> method,
      is_settled |-> FALSE ]

\* a list of recipients that keeps the creator
RecipientsAll(ps, u) == ps

\* the participants createSharedExpense notifies: all but the creator
Recipients(ps, u) == SelectSeq(ps, LAMBDA p : p.user_email # u)

\* the form is left to the caller: SharedExpenseForm closes after the call
createSharedExpense(u, total, method, ps) ==
    /\ Cardinality(DOMAIN expenses) < MaxExpenses
    /\ LET e == FreshExpenseId
           participantsWithAmounts == calculateParticipantAmounts(ps, total, method)
           rows == participantData(e, participantsWithAmounts,
                                   FreshPids(Len(ps), HeldPids))
       IN  IF ~ SharedExpenseCheck(total)
           THEN \* expenseError
                /\ last' = Report("create", FALSE, <<>>)
                /\ UNCHANGED <<expenses, participants>>
           ELSE IF \E r \in rows : ~ ParticipantCheck(r)
           THEN \* participantError: the expense row stays
                /\ expenses' = expenses @@ (e :> SharedExpenseRow(u, total, method))
                /\ last' = Report("create", FALSE, <<>>)
                /\ UNCHANGED participants
           ELSE /\ expenses' = expenses @@ (e :> SharedExpenseRow(u, total, method))
                /\ participants' = participants \cup rows
                /\ \E outcomes \in [1..Len(Recipients(ps, u)) -> NotifyOutcomes] :
                      \* a failed notification is logged, never thrown
                      last' = Report("create", TRUE, outcomes)
    /\ UNCHANGED <<settlements, now, settleUpData, calc, investments, refresh>>

(* SplitwiseService.updateSharedExpense                                    *)

updateSharedExpense(u, e, total, method, ps) ==
    /\ e \in DOMAIN expenses
    /\ LET participantsWithAmounts == calculateParticipantAmounts(ps, total, method)
           rows == participantData(e, participantsWithAmounts,
                                   FreshPids(Len(ps), HeldPids))
           deleted == { r \in ParticipantsOf(e) : CanDeleteParticipant(u, r) }
           insertOk == /\ CanInsertParticipant(u, e)
                       /\ \A r \in rows : ParticipantCheck(r)
       IN  IF CanWriteExpense(u, e) /\ ~ SharedExpenseCheck(total)
           THEN \* expenseError
                /\ last' = Report("update", FALSE, <<>>)
                /\ UNCHANGED <<expenses, participants>>
           ELSE /\ expenses' =
                     IF CanWriteExpense(u, e)
                     THEN [expenses EXCEPT ![e] =
                             [@ EXCEPT !.total_amount = total, !.split_method = method]]
                     ELSE expenses
                /\ participants' =
                     IF insertOk THEN (participants \ deleted) \cup rows
                     ELSE participants \ deleted
                /\ last' = Report("update", insertOk, <<>>)
    /\ UNCHANGED <<settlements, now, settleUpData, calc, investments, refresh>>

(* SplitwiseService.deleteSharedExpense                                    *)

deleteSharedExpense(u, e) ==
    /\ e \in DOMAIN expenses
    /\ IF CanWriteExpense(u, e)
       THEN /\ expenses' = [x \in DOMAIN expenses \ {e} |-> expenses[x]]
            \* ON DELETE CASCADE
            /\ participants' = participants \ ParticipantsOf(e)
            /\ settlements' =
                 [x \in { y \in DOMAIN settlements :
                            settlements[y].shared_expense_id # Some(e) }
                    |-> settlements[x]]
       ELSE UNCHANGED <<expenses, participants, settlements>>
    \* no row matched is no error
    /\ last' = Report("delete", TRUE, <<>>)
    /\ UNCHANGED <<now, settleUpData, calc, investments, refresh, form>>

(* SplitwiseService.settleExpense                                          *)

\* the flag is set, the payment is not recorded
SettledRowUnpaid(r, amount) == [r EXCEPT !.is_settled = TRUE]

SettledRow(r, amount) == [r EXCEPT !.amount_paid = amount, !.is_settled = TRUE]

\* the table after  UPDATE ... SET amount_paid, is_settled WHERE id = pid
SettleUpdate(u, pid, amount) ==
    { IF r.id = pid /\ CanUpdateParticipant(u, r) THEN SettledRow(r, amount) ELSE r :
        r \in participants }

settleExpense(u, pid, amount) ==
    /\ IF /\ \E r \in participants : r.id = pid /\ CanUpdateParticipant(u, r)
          /\ amount < 0
       THEN \* CHECK (amount_paid >= 0)
            /\ last' = Report("settle", FALSE, <<>>)
            /\ UNCHANGED participants
       ELSE /\ participants' = SettleUpdate(u, pid, amount)
            /\ last' = Report("settle", TRUE, <<>>)
    /\ UNCHANGED <<expenses, settlements, now, settleUpData, calc, investments, refresh, form>>

----------------------------------------------------------------------------
(* calculate_user_balance, called by SplitwiseService.getUserBalances      *)

\* NOT ep.is_settled
Unsettled(r) == ~ r.is_settled

\* raw_user_meta_data->>'name' of a registered user
UserName(u) == CHOOSE n \in DisplayNames(u) : TRUE

\* CTE user_owes: the others' open shares in the expenses the caller created
user_owes(rows, u) ==
    LET mine == { r \in rows : /\ IsCreator(u, r.shared_expense_id)
                               /\ r.user_email # u
                               /\ Unsettled(r) }
    IN  { [ friend_email |-> r.user_email,
            friend_name  |-> r.user_name,
            amount       |-> 0 - SumNet({ q \in mine : /\ q.user_email = r.user_email
                                                       /\ q.user_name = r.user_name }) ] :
          r \in mine }

\* CTE user_is_owed: the caller's open shares, grouped by the expense's creator
user_is_owed(rows, u) ==
    LET mine == { r \in rows : r.user_email = u /\ Unsettled(r) }
        creator(r) == expenses[r.shared_expense_id].created_by
    IN  { [ friend_email |-> creator(r),
            friend_name  |-> UserName(creator(r)),
            amount       |-> SumNet({ q \in mine : creator(q) = creator(r) }) ] :
          r \in mine }

\* user_owes FULL OUTER JOIN user_is_owed ON friend_email, WHERE balance != 0
BalanceRows(rows, u) ==
    LET uo == user_owes(rows, u)
        uio == user_is_owed(rows, u)
        both == { [ friend_email |-> p[1].friend_email,
                    friend_name  |-> p[1].friend_name,
                    balance      |-> p[1].amount + p[2].amount ] :
                  p \in { q \in uo \X uio : q[1].friend_email = q[2].friend_email } }
        left == { [ friend_email |-> x.friend_email,
                    friend_name  |-> x.friend_name,
                    balance      |-> x.amount ] :
                  x \in { y \in uo : \A z \in uio : z.friend_email # y.friend_email } }
        right == { [ friend_email |-> x.friend_email,
                     friend_name  |-> x.friend_name,
                     balance      |-> x.amount ] :
                   x \in { y \in uio : \A z \in uo : z.friend_email # y.friend_email } }
    IN  { b \in both \cup left \cup right : b.balance # 0 }

calculate_user_balance(u) == BalanceRows(participants, u)

----------------------------------------------------------------------------
(* The settle-up dialog: Splitwise.tsx and SettleUpModal.tsx               *)

\* sendSettlementNotification throws without a session and on an HTTP error;
\* the edge function answers success when only the e-mail could not be sent
SettlementNotificationThrows(o) == o \in {"no_session", "http_error"}

\* the "Settle Up" button of a participant row
SettleUpOffered(u, r) ==
    /\ ~ r.is_settled
    /\ r.user_email # u
    /\ expenses[r.shared_expense_id].created_by = u

\* Splitwise.handleSettleUp
OpenSettleUp(u, r) ==
    /\ settleUpData[u] = None
    /\ SettleUpOffered(u, r)
    /\ settleUpData' = [settleUpData EXCEPT ![u] =
            Some([ participantId    |-> r.id,
                   participantEmail |-> r.user_email,
                   amountOwed       |-> r.amount_owed ])]
    /\ UNCHANGED <<expenses, participants, settlements, now, last, calc, investments, refresh, form>>

\* a dialog that takes the settlement back when the notification fails
handleSettleUpRollback(u, o) ==
    /\ IsSome(settleUpData[u])
    /\ LET d == Val(settleUpData[u])
       IN  IF SettlementNotificationThrows(o)
           THEN /\ last' = Report("settleUp", FALSE, <<o>>)
                /\ UNCHANGED <<participants, settleUpData>>
           ELSE /\ participants' = SettleUpdate(u, d.participantId, d.amountOwed)
                /\ last' = Report("settleUp", TRUE, <<o>>)
                /\ settleUpData' = [settleUpData EXCEPT ![u] = None]
    /\ UNCHANGED <<expenses, settlements, now, calc, investments, refresh, form>>

\* SettleUpModal.handleSettleUp
handleSettleUp(u, o) ==
    /\ IsSome(settleUpData[u])
    /\ LET d == Val(settleUpData[u])
       IN  IF /\ \E r \in participants : r.id = d.participantId /\ CanUpdateParticipant(u, r)
              /\ d.amountOwed < 0
           THEN \* settleExpense threw: toast.error, the dialog stays
                /\ last' = Report("settleUp", FALSE, <<>>)
                /\ UNCHANGED <<participants, settleUpData>>
           ELSE /\ participants' = SettleUpdate(u, d.participantId, d.amountOwed)
                /\ IF SettlementNotificationThrows(o)
                   THEN \* toast.error, the dialog stays
                        /\ last' = Report("settleUp", FALSE, <<o>>)
                        /\ UNCHANGED settleUpData
                   ELSE \* toast.success, onSettled, onClose
                        /\ last' = Report("settleUp", TRUE, <<o>>)
                        /\ settleUpData' = [settleUpData EXCEPT ![u] = None]
    /\ UNCHANGED <<expenses, settlements, now, calc, investments, refresh, form>>

\* onClose of the dialog
CloseSettleUp(u) ==
    /\ IsSome(settleUpData[u])
    /\ settleUpData' = [settleUpData EXCEPT ![u] = None]
    /\ UNCHANGED <<expenses, participants, settlements, now, last, calc, investments, refresh, form>>

----------------------------------------------------------------------------
(* Settlements                                                             *)

SettlementAmounts == {-400000, 0, 400000, 1000000}

\* policies "Users can insert settlements they are involved in" and
\* "Users can update settlements they are involved in"
CanWriteSettlement(u, s) == s.from_user_email = u \/ s.to_user_email = u

FreshSettlementId == CHOOSE i \in SettlementIds \ DOMAIN settlements :
                         \A j \in SettlementIds \ DOMAIN settlements : i <= j

\* an insert that no CHECK on the amount guards
createSettlementUnchecked(u, to, amount, ref) ==
    /\ Cardinality(DOMAIN settlements) < MaxSettlements
    /\ settlements' = settlements @@
          (FreshSettlementId :> [ from_user_email   |-> u,
                                  to_user_email     |-> to,
                                  amount            |-> amount,
                                  shared_expense_id |-> ref,
                                  status            |-> "pending",
                                  settled_at        |-> None ])
    /\ last' = Report("createSettlement", TRUE, <<>>)
    /\ UNCHANGED <<expenses, participants, now, settleUpData, calc, investments, refresh, form>>

\* SplitwiseService.createSettlement
createSettlement(u, to, amount, ref) ==
    /\ amount > 0 => Cardinality(DOMAIN settlements) < MaxSettlements
    /\ LET id == FreshSettlementId
           row == [ from_user_email   |-> u,
                    to_user_email     |-> to,
                    amount            |-> amount,
                    shared_expense_id |-> ref,
                    status            |-> "pending",
                    settled_at        |-> None ]
       IN  IF amount > 0 /\ CanWriteSettlement(u, row)
           THEN /\ settlements' = settlements @@ (id :> row)
                /\ last' = Report("createSettlement", TRUE, <<>>)
           ELSE \* CHECK (amount > 0)
                /\ last' = Report("createSettlement", FALSE, <<>>)
                /\ UNCHANGED settlements
    /\ UNCHANGED <<expenses, participants, now, settleUpData, calc, investments, refresh, form>>

\* an update of the status alone
markSettlementCompleteStatusOnly(u, id) ==
    /\ settlements' =
         [x \in DOMAIN settlements |->
            IF x = id /\ CanWriteSettlement(u, settlements[x])
            THEN [settlements[x] EXCEPT !.status = "completed"]
            ELSE settlements[x]]
    /\ last' = Report("markSettlementComplete", TRUE, <<>>)
    /\ UNCHANGED <<expenses, participants, now, settleUpData, calc, investments, refresh, form>>

\* SplitwiseService.markSettlementComplete
markSettlementComplete(u, id) ==
    /\ settlements' =
         [x \in DOMAIN settlements |->
            IF x = id /\ CanWriteSettlement(u, settlements[x])
            THEN [settlements[x] EXCEPT !.status = "completed",
                                        !.settled_at = Some(now)]
            ELSE settlements[x]]
    /\ last' = Report("markSettlementComplete", TRUE, <<>>)
    /\ UNCHANGED <<expenses, participants, now, settleUpData, calc, investments, refresh, form>>

\* new Date(): the clock moves on
Tick ==
    /\ now < MaxTime
    /\ now' = now + 1
    /\ UNCHANGED <<expenses, participants, settlements, last, settleUpData, calc, investments, refresh, form>>

----------------------------------------------------------------------------
(* The service called by any signed-in user                                *)

CreateSharedExpense(reqs) ==
    \E u \in Users, rq \in reqs :
        /\ createSharedExpense(u, rq.total, rq.method, rq.ps)
        /\ UNCHANGED form

UpdateSharedExpense(reqs) ==
    \E u \in Users, e \in DOMAIN expenses, rq \in reqs :
        /\ updateSharedExpense(u, e, rq.total, rq.method, rq.ps)
        /\ UNCHANGED form

DeleteSharedExpense ==
    \E u \in Users, e \in DOMAIN expenses : deleteSharedExpense(u, e)

SettleExpense ==
    \E u \in Users, r \in participants :
        \E amount \in PaidAmounts \cup {r.amount_owed} :
            settleExpense(u, r.id, amount)

Next ==
    \/ CreateSharedExpense(Requests)
    \/ UpdateSharedExpense(Requests)
    \/ DeleteSharedExpense
    \/ SettleExpense

Spec == Init /\ [][Next]_vars

----------------------------------------------------------------------------
(* The Splitwise page over the service                                     *)

\* the sessions whose settle-up dialog is followed; every user submits forms
PageUsers == {"a"}

SettleUpOpen == \E u \in PageUsers, r \in participants : OpenSettleUp(u, r)

SettleUpConfirm == \E u \in Users, o \in NotifyOutcomes : handleSettleUp(u, o)

SettleUpClose == \E u \in Users : CloseSettleUp(u)

\* SharedExpenseForm: the current user is always a participant and
\* validateSplit asks for at least two participants
FormRequests(u) ==
    { rq \in EqualRequests :
        Len(rq.ps) >= 2 /\ \E i \in 1..Len(rq.ps) : rq.ps[i].user_email = u }

\* SharedExpenseForm.handleFormSubmit, adding an expense
handleFormSubmitCreate ==
    \E u \in Users : \E rq \in FormRequests(u) :
        /\ createSharedExpense(u, rq.total, rq.method, rq.ps)
        /\ UNCHANGED form

\* SharedExpenseForm.handleFormSubmit, behind the creator's edit button
handleFormSubmitUpdate ==
    \E u \in Users, e \in DOMAIN expenses : \E rq \in FormRequests(u) :
        /\ expenses[e].created_by = u
        /\ updateSharedExpense(u, e, rq.total, rq.method, rq.ps)
        /\ UNCHANGED form

\* Splitwise.handleDeleteExpense, behind the creator's delete button
handleDeleteExpense ==
    \E u \in Users, e \in DOMAIN expenses :
        /\ expenses[e].created_by = u
        /\ deleteSharedExpense(u, e)

NextUi ==
    \/ handleFormSubmitCreate
    \/ handleFormSubmitUpdate
    \/ handleDeleteExpense
    \/ SettleUpOpen
    \/ SettleUpConfirm
    \/ SettleUpClose

SpecUi == Init /\ [][NextUi]_vars

----------------------------------------------------------------------------
(* The settlement ledger                                                   *)

CreateSettlement ==
    \E u \in Users, to \in Emails, amount \in SettlementAmounts :
        \E ref \in {None} \cup { Some(e) : e \in DOMAIN expenses } :
            createSettlement(u, to, amount, ref)

MarkSettlementComplete ==
    \E u \in Users, id \in DOMAIN settlements : markSettlementComplete(u, id)

NextLedger ==
    \/ CreateSettlement
    \/ MarkSettlementComplete
    \/ Tick

SpecLedger == Init /\ [][NextLedger]_vars

----------------------------------------------------------------------------
(* The split calculator on its own: a request is drawn, then the rows that *)
(* createSharedExpense and updateSharedExpense insert for it are computed  *)

CalcEmails == Emails \cup {"c"}

CalcLists ==
    { el \in UNION { [1..n -> CalcEmails] : n \in 0..Cardinality(CalcEmails) } :
        \A i, j \in 1..Len(el) : i < j => Rank(el[i]) < Rank(el[j]) }

\* 0.01 and 100.00
CalcTotals == {100, 1000000}

CalcValues(method) ==
    CASE method = "percentage" -> {None, Some(10), Some(25), Some(50), Some(100)}
      [] method = "shares" -> {None, Some(0), Some(1), Some(2)}
      [] method = "custom" -> {None, Some(25), Some(50), Some(100),
                               Some(250000), Some(500000), Some(1000000)}
      [] OTHER -> {None}

\* the field the participants carry (k) is drawn apart from the method (m)
CalcRequests ==
    UNION { UNION { { [ total |-> t, method |-> m,
                        ps |-> [i \in 1..Len(el) |-> ParticipantInput(el[i], k, v[i])] ] :
                      v \in [1..Len(el) -> CalcValues(k)] } :
                    el \in CalcLists } :
            t \in CalcTotals, m \in Methods, k \in Methods }

InitCalc ==
    /\ expenses = <<>>
    /\ participants = {}
    /\ settlements = <<>>
    /\ now = 0
    /\ last = Report("none", TRUE, <<>>)
    /\ settleUpData = [u \in Users |-> None]
    /\ calc \in { [rq |-> Some(rq), rows |-> None] : rq \in CalcRequests }
    /\ investments = <<>>
    /\ refresh = Idle
    /\ form = Closed

\* a call that writes the amounts into the objects it was given
CalculateInPlace ==
    /\ IsSome(calc.rq)
    /\ LET rq == Val(calc.rq)
           withAmounts == calculateParticipantAmounts(rq.ps, rq.total, rq.method)
       IN  calc' = [ rq   |-> Some([rq EXCEPT !.ps = withAmounts]),
                     rows |-> Some(participantData(1, withAmounts,
                                                   FreshPids(Len(rq.ps), {}))) ]
    /\ UNCHANGED <<expenses, participants, settlements, now, last, settleUpData, investments, refresh, form>>

\* splitwise.ts: calculateParticipantAmounts, then the participantData map;
\* calc.rq is the caller's list, which map and the spread leave as it was
Calculate ==
    /\ IsSome(calc.rq)
    /\ LET rq == Val(calc.rq)
           withAmounts == calculateParticipantAmounts(rq.ps, rq.total, rq.method)
       IN  calc' = [ rq   |-> Some(rq),
                     rows |-> Some(participantData(1, withAmounts,
                                                   FreshPids(Len(rq.ps), {}))) ]
    /\ UNCHANGED <<expenses, participants, settlements, now, last, settleUpData, investments, refresh, form>>

NextCalc == Calculate

SpecCalc == InitCalc /\ [][NextCalc]_vars

----------------------------------------------------------------------------
(* The balance computation on its own: a database that creations and      *)
(* settlements can leave is drawn, then users ask for their balances       *)

BalanceExpenseIds == 1..(MaxExpenses + 1)

\* the names under which a creator may list a participant
AltNames(e) == DisplayNames(e) \cup {"alias"}

\* a participant of an expense: absent, or listed under a name, open or settled
BalanceOptions(e) ==
    {None} \cup { Some([name |-> n, settled |-> b]) : n \in AltNames(e), b \in BOOLEAN }

BalanceChoices ==
    { f \in [BalanceExpenseIds \X Emails -> UNION { BalanceOptions(e) : e \in Emails }] :
        \A x \in BalanceExpenseIds, e \in Emails : f[<<x, e>>] \in BalanceOptions(e) }

\* the participant records of a choice; expense x splits in amounts of 20.00 (x + 1)
BalanceTable(f) ==
    { [ id                |-> (x - 1) * Cardinality(Emails) + Rank(e),
        shared_expense_id |-> x,
        user_email        |-> e,
        user_name         |-> Val(f[<<x, e>>]).name,
        amount_owed       |-> 200000 * (x + 1),
        amount_paid       |-> IF Val(f[<<x, e>>]).settled THEN 200000 * (x + 1) ELSE 0,
        percentage        |-> None,
        shares            |-> None,
        is_settled        |-> Val(f[<<x, e>>]).settled ] :
      <<x, e>> \in { p \in BalanceExpenseIds \X Emails : IsSome(f[p]) } }

InitBalance ==
    /\ expenses \in [BalanceExpenseIds ->
                        { SharedExpenseRow(u, 1000000, "custom") : u \in Users }]
    /\ \E f \in BalanceChoices : participants = BalanceTable(f)
    /\ settlements = <<>>
    /\ now = 0
    /\ last = Report("none", TRUE, <<>>)
    /\ settleUpData = [u \in Users |-> None]
    /\ calc = [rq |-> None, rows |-> None]
    /\ investments = <<>>
    /\ refresh = Idle
    /\ form = Closed

\* SplitwiseService.getUserBalances
getUserBalances(u) ==
    /\ calc.rq # Some(u)
    /\ calc' = [rq |-> Some(u), rows |-> Some(calculate_user_balance(u))]
    /\ UNCHANGED <<expenses, participants, settlements, now, last, settleUpData, investments, refresh, form>>

GetUserBalances == \E u \in Users : getUserBalances(u)

NextBalance == GetUserBalances

SpecBalance == InitBalance /\ [][NextBalance]_vars

----------------------------------------------------------------------------
(* Investments: the investment form and the update-stock-prices function.  *)
(* Prices are whole currency units; the refresh clock counts seconds from  *)
(* the start of the run and only the pause lets time pass.                 *)

MaxInvestments == 3

\* setTimeout(resolve, 12000)
PauseSeconds == 12

Symbols == {"AAA", "BBB"}
PurchasePrice == 100
QuotePrice == 150

\* what the validate-stock function and its caller can meet
ValidationOutcomes ==
    {"valid", "unknown_symbol", "no_session", "network_error", "http_error",
     "rate_limited"}

\* InvestmentService.validateSymbol
validateSymbol(o) ==
    CASE o = "no_session" -> TRUE       \* thrown and caught: assume valid
      [] o = "network_error" -> TRUE    \* fetch rejects, caught: assume valid
      [] o = "http_error" -> TRUE       \* the function answers 500: !response.ok
      [] o = "rate_limited" -> FALSE    \* the function answers 200, valid: false
      [] o = "unknown_symbol" -> FALSE  \* the function answers 200, valid: false
      [] OTHER -> TRUE                  \* the function answers 200, valid: true

\* InvestmentForm.handleFormSubmit for a new personal stock investment
handleInvestmentSubmit(symbol, o) ==
    /\ Len(investments) < MaxInvestments
    /\ IF validateSymbol(o)
       THEN \* InvestmentService.createInvestment
            /\ investments' = Append(investments,
                    [symbol |-> symbol, current_price |-> PurchasePrice])
            /\ last' = Report("addInvestment", TRUE, <<o>>)
       ELSE \* toast.error('Invalid stock symbol ...')
            /\ last' = Report("addInvestment", FALSE, <<o>>)
            /\ UNCHANGED investments
    /\ UNCHANGED <<expenses, participants, settlements, now, settleUpData, calc,
                   refresh, form>>

\* [...new Set(investments.map(inv => inv.symbol))]
RECURSIVE uniqueSymbols(_)
uniqueSymbols(rows) ==
    IF rows = <<>> THEN <<>>
    ELSE LET front == uniqueSymbols(SubSeq(rows, 1, Len(rows) - 1))
             symbol == rows[Len(rows)].symbol
         IN  IF \E k \in 1..Len(front) : front[k] = symbol
             THEN front ELSE Append(front, symbol)

StartOutcomes == {"ok", "unauthorized", "select_error"}

\* serve handler up to the symbol loop
StartRefresh(o) ==
    /\ refresh.i = 0
    /\ refresh' =
         IF o # "ok"
         THEN [Idle EXCEPT !.response = Some([success |-> FALSE, updated |-> 0])]
         ELSE IF Len(investments) = 0
         THEN [Idle EXCEPT !.response = Some([success |-> TRUE, updated |-> 0])]
         ELSE [Idle EXCEPT !.i = 1,
                           !.loaded = [k \in 1..Len(investments) |->
                                         [ id |-> k,
                                           symbol |-> investments[k].symbol,
                                           current_price |-> investments[k].current_price ]],
                           !.symbols = uniqueSymbols(investments)]
    /\ UNCHANGED <<expenses, participants, settlements, now, last, settleUpData, calc,
                   investments, form>>

QuoteOutcomes == {"quote", "http_error", "rate_limited"}

\* the investments of the run that hold the symbol
symbolInvestments(symbol) ==
    SelectSeq(refresh.loaded, LAMBDA inv : inv.symbol = symbol)

\* the result pushed when the quote could not be fetched, or the update failed
FailedResult(inv) ==
    [ symbol |-> inv.symbol, oldPrice |-> inv.current_price,
      newPrice |-> inv.current_price, success |-> FALSE ]

UpdatedResult(inv, price) ==
    [ symbol |-> inv.symbol, oldPrice |-> inv.current_price,
      newPrice |-> price, success |-> TRUE ]

\* a loop that gives up on the first quote that cannot be fetched
FetchQuoteOrAbort(o, dbOk) ==
    /\ refresh.i \in 1..Len(refresh.symbols)
    /\ ~ refresh.pausing
    /\ LET symbol == refresh.symbols[refresh.i]
           invs == symbolInvestments(symbol)
           request == [symbol |-> symbol, at |-> refresh.clock, ok |-> o = "quote"]
       IN  IF o = "quote"
           THEN /\ DOMAIN dbOk = { invs[k].id : k \in 1..Len(invs) }
                /\ investments' =
                     [k \in 1..Len(investments) |->
                        IF k \in DOMAIN dbOk /\ dbOk[k]
                        THEN [investments[k] EXCEPT !.current_price = QuotePrice]
                        ELSE investments[k]]
                /\ refresh' =
                     [refresh EXCEPT
                        !.requests = Append(@, request),
                        !.results = @ \o [k \in 1..Len(invs) |->
                                            IF dbOk[invs[k].id]
                                            THEN UpdatedResult(invs[k], QuotePrice)
                                            ELSE FailedResult(invs[k])],
                        !.pausing = refresh.i < Len(refresh.symbols),
                        !.i = IF refresh.i < Len(refresh.symbols) THEN @ ELSE @ + 1]
           ELSE /\ DOMAIN dbOk = {}
                /\ refresh' =
                     [refresh EXCEPT
                        !.requests = Append(@, request),
                        !.i = 0,
                        !.response = Some([success |-> FALSE, updated |-> 0])]
                /\ UNCHANGED investments
    /\ UNCHANGED <<expenses, participants, settlements, now, last, settleUpData, calc, form>>

\* one turn of the symbol loop up to its pause: the quote request, the
\* updates of the symbol's investments and the results pushed
FetchQuote(o, dbOk) ==
    /\ refresh.i \in 1..Len(refresh.symbols)
    /\ ~ refresh.pausing
    /\ LET symbol == refresh.symbols[refresh.i]
           invs == symbolInvestments(symbol)
           request == [symbol |-> symbol, at |-> refresh.clock, ok |-> o = "quote"]
       IN  IF o = "quote"
           THEN /\ DOMAIN dbOk = { invs[k].id : k \in 1..Len(invs) }
                /\ investments' =
                     [k \in 1..Len(investments) |->
                        IF k \in DOMAIN dbOk /\ dbOk[k]
                        THEN [investments[k] EXCEPT !.current_price = QuotePrice]
                        ELSE investments[k]]
                /\ refresh' =
                     [refresh EXCEPT
                        !.requests = Append(@, request),
                        !.results = @ \o [k \in 1..Len(invs) |->
                                            IF dbOk[invs[k].id]
                                            THEN UpdatedResult(invs[k], QuotePrice)
                                            ELSE FailedResult(invs[k])],
                        \* the pause is skipped after the last symbol
                        !.pausing = refresh.i < Len(refresh.symbols),
                        !.i = IF refresh.i < Len(refresh.symbols) THEN @ ELSE @ + 1]
           ELSE \* catch: no pause on this path
                /\ DOMAIN dbOk = {}
                /\ refresh' =
                     [refresh EXCEPT
                        !.requests = Append(@, request),
                        !.results = @ \o [k \in 1..Len(invs) |-> FailedResult(invs[k])],
                        !.i = @ + 1]
                /\ UNCHANGED investments
    /\ UNCHANGED <<expenses, participants, settlements, now, last, settleUpData, calc, form>>

\* await new Promise(resolve => setTimeout(resolve, 12000))
Pause ==
    /\ refresh.pausing
    /\ refresh' = [refresh EXCEPT !.pausing = FALSE,
                                  !.clock = @ + PauseSeconds,
                                  !.i = @ + 1]
    /\ UNCHANGED <<expenses, participants, settlements, now, last, settleUpData, calc,
                   investments, form>>

\* the response after the loop
Respond ==
    /\ refresh.i > Len(refresh.symbols)
    /\ refresh' =
         [refresh EXCEPT
            !.i = 0,
            !.response = Some([ success |-> TRUE,
                                updated |-> Len(SelectSeq(refresh.results,
                                                          LAMBDA r : r.success)) ])]
    /\ UNCHANGED <<expenses, participants, settlements, now, last, settleUpData, calc,
                   investments, form>>

InvestmentSubmit ==
    \E symbol \in Symbols, o \in ValidationOutcomes : handleInvestmentSubmit(symbol, o)

RefreshStart == \E o \in StartOutcomes : StartRefresh(o)

RefreshFetch ==
    \E o \in QuoteOutcomes :
        \E dbOk \in UNION { [ids -> BOOLEAN] : ids \in SUBSET (1..MaxInvestments) } :
            FetchQuote(o, dbOk)

NextPrices ==
    \/ InvestmentSubmit
    \/ RefreshStart
    \/ RefreshFetch
    \/ Pause
    \/ Respond

SpecPrices == Init /\ [][NextPrices]_vars

----------------------------------------------------------------------------
(* SharedExpenseForm inside the modal of the Splitwise page.  The group    *)
(* selector is left out: fetchGroupMembers always leaves groupMembers      *)
(* empty.                                                                  *)

\* z.number().min(0.01) of sharedExpenseSchema, in units of 0.0001
MinAmount == 100
\* units of 0.0001 in one percent point
PercentUnits == 10000

\* what the user types
FormTotals == {1000000}
FormPercentages == {50}
\* 50.005: two of them are within 0.01 of the total without being equal to it
FormCustomAmounts == {500050}
FormShareCounts == {2}

\* m[e] of a JavaScript object: undefined without the key
Entry(m, e) == IF e \in DOMAIN m THEN Some(m[e]) ELSE None

\* delete m[e]
Without(m, e) == [x \in DOMAIN m \ {e} |-> m[x]]

RECURSIVE RowsById(_)
\* expense.participants as the page fetched them
RowsById(rows) ==
    IF rows = {} THEN <<>>
    ELSE LET r == CHOOSE r \in rows : \A q \in rows : r.id <= q.id
         IN  <<r>> \o RowsById(rows \ {r})

\* handleAddExpense / handleEditExpense and the form's first effect
OpenForm(u, x) ==
    /\ ~ form.open
    /\ IF IsSome(x)
       THEN LET e == Val(x)
                ps == RowsById(ParticipantsOf(e))
                participantFriends == SelectSeq(ps, LAMBDA p : p.user_email # u)
            IN  /\ expenses[e].created_by = u
                /\ form' =
                     [ open |-> TRUE, user |-> Some(u), expense |-> x,
                       selectedFriends |->
                          [i \in 1..Len(participantFriends) |->
                              participantFriends[i].user_email],
                       splitMethod |-> expenses[e].split_method,
                       total |-> expenses[e].total_amount,
                       percentages |->
                          [m \in { p.user_email : p \in
                                     { q \in ParticipantsOf(e) : IsSome(q.percentage) } } |->
                              Val((CHOOSE q \in ParticipantsOf(e) :
                                      q.user_email = m /\ IsSome(q.percentage)).percentage)],
                       customAmounts |->
                          [m \in { p.user_email : p \in ParticipantsOf(e) } |->
                              (CHOOSE q \in ParticipantsOf(e) : q.user_email = m).amount_owed],
                       shares |->
                          [m \in { p.user_email : p \in
                                     { q \in ParticipantsOf(e) : IsSome(q.shares) } } |->
                              Val((CHOOSE q \in ParticipantsOf(e) :
                                      q.user_email = m /\ IsSome(q.shares)).shares)] ]
       ELSE form' = [Closed EXCEPT !.open = TRUE, !.user = Some(u)]
    /\ UNCHANGED <<expenses, participants, settlements, now, last, settleUpData, calc, investments, refresh>>

\* onCancel, or the modal's onClose
onCancel ==
    /\ form.open
    /\ form' = Closed
    /\ UNCHANGED <<expenses, participants, settlements, now, last, settleUpData, calc, investments, refresh>>

\* the total_amount field
setTotal(t) ==
    /\ form.open
    /\ form' = [form EXCEPT !.total = t]
    /\ UNCHANGED <<expenses, participants, settlements, now, last, settleUpData, calc, investments, refresh>>

\* the list before its duplicates are removed
allWithDuplicates(f) == <<Val(f.user)>> \o f.selectedFriends

RECURSIVE uniqueParticipants(_)
\* filter(index === self.findIndex(same e-mail)): first occurrences only
uniqueParticipants(ps) ==
    IF ps = <<>> THEN <<>>
    ELSE LET front == SubSeq(ps, 1, Len(ps) - 1)
             x == ps[Len(ps)]
         IN  IF \E j \in 1..Len(front) : front[j] = x
             THEN uniqueParticipants(front)
             ELSE Append(uniqueParticipants(front), x)

\* a list that keeps an e-mail named twice
getAllParticipantsWithDuplicates(f) == allWithDuplicates(f)

\* the current user, then the selected friends
getAllParticipants(f) == uniqueParticipants(allWithDuplicates(f))

addFriend(friend) ==
    /\ form.open
    /\ \A i \in 1..Len(form.selectedFriends) : form.selectedFriends[i] # friend
    /\ form' = [form EXCEPT !.selectedFriends = Append(@, friend)]
    /\ UNCHANGED <<expenses, participants, settlements, now, last, settleUpData, calc, investments, refresh>>

removeFriend(friendEmail) ==
    /\ form.open
    /\ \E i \in 1..Len(form.selectedFriends) : form.selectedFriends[i] = friendEmail
    /\ form' = [form EXCEPT
                  !.selectedFriends = SelectSeq(@, LAMBDA f : f # friendEmail),
                  !.percentages = Without(@, friendEmail),
                  !.customAmounts = Without(@, friendEmail),
                  !.shares = Without(@, friendEmail)]
    /\ UNCHANGED <<expenses, participants, settlements, now, last, settleUpData, calc, investments, refresh>>

\* the split controls are rendered for two or more participants
setSplitMethod(method) ==
    /\ form.open
    /\ Len(getAllParticipants(form)) >= 2
    /\ form' = [form EXCEPT !.splitMethod = method]
    /\ UNCHANGED <<expenses, participants, settlements, now, last, settleUpData, calc, investments, refresh>>

\* renderSplitInputs shows one input per participant, for the method chosen
SplitInputShown(method, email) ==
    /\ form.open
    /\ form.splitMethod = method
    /\ form.total > 0
    /\ Len(getAllParticipants(form)) >= 2
    /\ \E i \in 1..Len(getAllParticipants(form)) : getAllParticipants(form)[i] = email

updatePercentage(email, percentage) ==
    /\ SplitInputShown("percentage", email)
    /\ form' = [form EXCEPT !.percentages = (email :> percentage) @@ @]
    /\ UNCHANGED <<expenses, participants, settlements, now, last, settleUpData, calc, investments, refresh>>

updateCustomAmount(email, amount) ==
    /\ SplitInputShown("custom", email)
    /\ form' = [form EXCEPT !.customAmounts = (email :> amount) @@ @]
    /\ UNCHANGED <<expenses, participants, settlements, now, last, settleUpData, calc, investments, refresh>>

updateShares(email, shareCount) ==
    /\ SplitInputShown("shares", email)
    /\ form' = [form EXCEPT !.shares = (email :> shareCount) @@ @]
    /\ UNCHANGED <<expenses, participants, settlements, now, last, settleUpData, calc, investments, refresh>>

RECURSIVE SumEntries(_, _)
\* the values a map of the form holds for a set of e-mails, missing ones as 0
SumEntries(m, emails) ==
    IF emails = {} THEN 0
    ELSE LET e == CHOOSE e \in emails : TRUE
         IN  OrZero(Entry(m, e)) + SumEntries(m, emails \ {e})

validateSplit(f) ==
    LET allParticipants == getAllParticipants(f)
        totalPercentage ==
            SumSeq([i \in 1..Len(allParticipants) |->
                       OrZero(Entry(f.percentages, allParticipants[i]))])
        totalCustom ==
            SumSeq([i \in 1..Len(allParticipants) |->
                       OrZero(Entry(f.customAmounts, allParticipants[i]))])
    IN  /\ Len(allParticipants) >= 2
        /\ f.splitMethod = "percentage" =>
              ~ (Abs(totalPercentage - PercentBase) * PercentUnits > Tolerance)
        /\ f.splitMethod = "custom" =>
              ~ (Abs(totalCustom - f.total) > Tolerance)

\* the participants handleFormSubmit hands to the service
participantsWithAmounts(f) ==
    LET allParticipants == getAllParticipants(f)
        totalShares ==
            SumSeq([i \in 1..Len(allParticipants) |->
                       OrOne(Entry(f.shares, allParticipants[i]))])
    IN  [i \in 1..Len(allParticipants) |->
           LET email == allParticipants[i]
               percentage == OrZero(Entry(f.percentages, email))
               shareCount == OrOne(Entry(f.shares, email))
           IN  [ user_email  |-> email,
                 user_name   |-> CHOOSE n \in DisplayNames(email) : TRUE,
                 amount_owed |->
                    Some(CASE f.splitMethod = "equal" ->
                                 Div(f.total, Len(allParticipants))
                           [] f.splitMethod = "percentage" ->
                                 Div(f.total * percentage, PercentBase)
                           [] f.splitMethod = "custom" ->
                                 OrZero(Entry(f.customAmounts, email))
                           [] OTHER ->
                                 Div(f.total * shareCount, totalShares)),
                 percentage  |-> IF f.splitMethod = "percentage"
                                 THEN Some(percentage) ELSE None,
                 shares      |-> IF f.splitMethod = "shares"
                                 THEN Some(shareCount) ELSE None ]]

\* handleSubmit(handleFormSubmit): the schema, validateSplit, the service
\* call, then onSubmit (the page closes the modal) unless the call threw
handleFormSubmit(u) ==
    /\ form.open
    /\ form.user = Some(u)
    /\ form.total >= MinAmount
    /\ IF ~ validateSplit(form)
       THEN /\ last' = Report("validateSplit", FALSE, <<>>)
            /\ UNCHANGED <<expenses, participants, settlements, now, settleUpData, calc, investments, refresh, form>>
       ELSE /\ IF IsSome(form.expense)
               THEN updateSharedExpense(u, Val(form.expense), form.total,
                                        form.splitMethod, participantsWithAmounts(form))
               ELSE createSharedExpense(u, form.total, form.splitMethod,
                                        participantsWithAmounts(form))
            /\ form' = IF last'.ok THEN Closed ELSE form

NextForm ==
    \/ \E u \in PageUsers, x \in {None} \cup { Some(e) : e \in DOMAIN expenses } :
          OpenForm(u, x)
    \/ onCancel
    \/ \E t \in FormTotals : setTotal(t)
    \/ \E friend \in Emails : addFriend(friend)
    \/ \E friend \in Emails : removeFriend(friend)
    \/ \E method \in Methods : setSplitMethod(method)
    \/ \E email \in Emails, percentage \in FormPercentages :
          updatePercentage(email, percentage)
    \/ \E email \in Emails, amount \in FormCustomAmounts :
          updateCustomAmount(email, amount)
    \/ \E email \in Emails, shareCount \in FormShareCounts :
          updateShares(email, shareCount)
    \/ \E u \in PageUsers : handleFormSubmit(u)

SpecForm == Init /\ [][NextForm]_vars

----------------------------------------------------------------------------
(* createSharedExpense with up to three participants, for its              *)
(* notifications                                                           *)

\* shares requests over three e-mails; a share count of 0 is refused by the
\* participants' CHECK
NotifyRequests ==
    { rq \in CalcRequests :
        /\ rq.method = "shares"
        /\ \A i \in 1..Len(rq.ps) : rq.ps[i].shares \in {Some(0), Some(1)} }

NextNotify ==
    \E u \in Users, rq \in NotifyRequests :
        /\ createSharedExpense(u, rq.total, rq.method, rq.ps)
        /\ UNCHANGED form

SpecNotify == Init /\ [][NextNotify]_vars

----------------------------------------------------------------------------
(* Properties                                                              *)

(* C1: for a positive total and a valid participant list, the amounts owed *)
(* of the rows stored for the request sum to the total within 0.01, for    *)
(* each of the four split methods.                                         *)
SplitSumsToTotal ==
    IsSome(calc.rows) =>
        LET rq == Val(calc.rq)
            rows == Val(calc.rows)
        IN  ( /\ ValidSplit(rq.total, rq.method, rq.ps)
              /\ \A r \in rows : ParticipantCheck(r) )
            => Abs(SumOwed(rows) - rq.total) <= Tolerance

\* three equal shares of 0.01: a valid request whose amounts are rounded
SplitSumsToTotalWitness ==
    /\ IsSome(calc.rows)
    /\ Val(calc.rq).method = "shares"
    /\ Len(Val(calc.rq).ps) = 3
    /\ ValidSplit(Val(calc.rq).total, Val(calc.rq).method, Val(calc.rq).ps)
    /\ \A r \in Val(calc.rows) : ParticipantCheck(r) /\ r.amount_owed > 0
    /\ SumOwed(Val(calc.rows)) # Val(calc.rq).total

(* C2: when user B has an unsettled share in expenses user A created, the  *)
(* balances computed for A list B with the positive amount owed minus paid *)
(* and the balances computed for B list A with the negative of it.         *)
BalanceSigns ==
    \A A \in Users : \A B \in Users \ {A} :
        LET owes(x, y) ==
                SumNet({ r \in participants : /\ IsCreator(y, r.shared_expense_id)
                                              /\ r.user_email = x
                                              /\ Unsettled(r) })
            net == owes(B, A) - owes(A, B)
        IN  net > 0 =>
              /\ \E b \in calculate_user_balance(A) :
                    b.friend_email = B /\ b.balance = net
              /\ \E b \in calculate_user_balance(B) :
                    b.friend_email = A /\ b.balance = 0 - net

(* C3: a share (expense and e-mail) that is settled stays settled in every *)
(* step of the service that keeps the participant in the expense.          *)
SettledStaysSettled ==
    [][ \A r \in participants :
          r.is_settled =>
            \A q \in participants' :
                ( /\ q.shared_expense_id = r.shared_expense_id
                  /\ q.user_email = r.user_email ) => q.is_settled ]_vars

TerminalSettlementFrozen ==
    [][ \A id \in DOMAIN settlements :
          ( /\ settlements[id].status \in {"completed", "cancelled"}
            /\ id \in DOMAIN settlements' )
          => /\ settlements'[id].status = settlements[id].status
             /\ settlements'[id].settled_at = settlements[id].settled_at ]_vars

(* C6: the is_settled flag of a shared expense is true exactly when the    *)
(* expense has participants and every one of them is settled.              *)
ExpenseSettledFlag ==
    \A e \in DOMAIN expenses :
        expenses[e].is_settled <=>
            ( /\ ParticipantsOf(e) # {}
              /\ \A r \in ParticipantsOf(e) : r.is_settled )

(* C7: the settle-up dialog reports success whenever the participant was   *)
(* settled, and the creation of an expense reports success whenever its    *)
(* rows were stored, whatever the outcome of the notification.             *)
NotificationNeverFailsOperation ==
    [][ /\ \A u \in Users, o \in NotifyOutcomes :
              ( /\ handleSettleUp(u, o)
                /\ \E q \in participants' :
                      q.id = Val(settleUpData[u]).participantId /\ q.is_settled )
              => last'.ok
        /\ (last'.op = "create" /\ participants' # participants) => last'.ok ]_vars

(* C8: when the settlement notification fails, the participant the dialog  *)
(* settled is stored as settled with the amount paid, and closing the      *)
(* dialog afterwards changes no participant record.                        *)
NotificationFailureKeepsSettlement ==
    [][ /\ \A u \in Users, o \in NotifyOutcomes :
              (handleSettleUp(u, o) /\ SettlementNotificationThrows(o)) =>
                \A r \in participants :
                    ( /\ r.id = Val(settleUpData[u]).participantId
                      /\ CanUpdateParticipant(u, r) )
                    => \E q \in participants' :
                          /\ q.id = r.id
                          /\ q.is_settled
                          /\ q.amount_paid = Val(settleUpData[u]).amountOwed
        /\ \A u \in Users : CloseSettleUp(u) => participants' = participants ]_vars

NotificationFailureKeepsSettlementWitness ==
    /\ last.op = "settleUp"
    /\ ~ last.ok
    /\ last.notified \in {<<"no_session">>, <<"http_error">>}
    /\ \E u \in Users :
          /\ IsSome(settleUpData[u])
          /\ \E r \in participants :
                /\ r.id = Val(settleUpData[u]).participantId
                /\ r.is_settled
                /\ r.amount_paid = Val(settleUpData[u]).amountOwed
                /\ r.amount_paid > 0

(* C9: a call of settleExpense that turns a participant record settled is  *)
(* made by the creator of the record's expense.                            *)
OnlyCreatorSettles ==
    [][ \A u \in Users, r \in participants :
          \A amount \in PaidAmounts \cup {r.amount_owed} :
              ( /\ settleExpense(u, r.id, amount)
                /\ ~ r.is_settled
                /\ \E q \in participants' : q.id = r.id /\ q.is_settled )
              => IsCreator(u, r.shared_expense_id) ]_vars

(* C10: updateSharedExpense or deleteSharedExpense called by a user who is *)
(* not the creator reports a failure and leaves the expense and its        *)
(* participant records as they were.                                       *)
NonCreatorWriteRefused ==
    [][ \A u \in Users, e \in DOMAIN expenses :
          ( /\ ~ IsCreator(u, e)
            /\ \/ \E rq \in Requests :
                     updateSharedExpense(u, e, rq.total, rq.method, rq.ps)
               \/ deleteSharedExpense(u, e) )
          => /\ ~ last'.ok
             /\ expenses' = expenses
             /\ participants' = participants ]_vars

(* C11: a call of updateSharedExpense by the creator leaves the expense    *)
(* with its complete old participant list or with its complete new one,   *)
(* also when a step of the update fails.                                  *)
UpdateReplacesAtomically ==
    [][ \A u \in Users, e \in DOMAIN expenses, rq \in Requests :
          ( /\ IsCreator(u, e)
            /\ updateSharedExpense(u, e, rq.total, rq.method, rq.ps) )
          => LET after == { r \in participants' : r.shared_expense_id = e }
                 new == participantData(e,
                            calculateParticipantAmounts(rq.ps, rq.total, rq.method),
                            FreshPids(Len(rq.ps), HeldPids))
             IN  after = ParticipantsOf(e) \/ after = new ]_vars

(* C12: for the equal method and an empty participant list the split      *)
(* calculation returns no result.                                         *)
EqualSplitOfNobodyFails ==
    ( /\ IsSome(calc.rq)
      /\ Val(calc.rq).method = "equal"
      /\ Len(Val(calc.rq).ps) = 0 )
    => calc.rows = None

(* C13: createSettlement with an amount of zero or less reports a failure  *)
(* and stores nothing; with a positive amount it stores exactly one       *)
(* pending settlement from the caller to the payee.                       *)
CreateSettlementChecksAmount ==
    [][ \A u \in Users, to \in Emails, amount \in SettlementAmounts :
          \A ref \in {None} \cup { Some(e) : e \in DOMAIN expenses } :
              createSettlement(u, to, amount, ref) =>
                IF amount <= 0
                THEN ~ last'.ok /\ settlements' = settlements
                ELSE /\ last'.ok
                     /\ \E id \in DOMAIN settlements' \ DOMAIN settlements :
                          /\ DOMAIN settlements' = DOMAIN settlements \cup {id}
                          /\ \A x \in DOMAIN settlements :
                                settlements'[x] = settlements[x]
                          /\ settlements'[id].status = "pending"
                          /\ settlements'[id].settled_at = None
                          /\ settlements'[id].from_user_email = u
                          /\ settlements'[id].to_user_email = to
                          /\ settlements'[id].amount = amount ]_vars

\* a settlement was stored, and a later request with no positive amount failed
CreateSettlementChecksAmountWitness ==
    /\ last = Report("createSettlement", FALSE, <<>>)
    /\ \E id \in DOMAIN settlements :
          settlements[id].status = "pending" /\ settlements[id].amount > 0

(* C14: the balances computed for a user hold at most one entry for each  *)
(* counterparty e-mail, and the entry's amount is the sum of that          *)
(* counterparty's contributions from the expenses the user created and     *)
(* from the expenses the user takes part in, whatever the display names.   *)
OneBalancePerCounterparty ==
    IsSome(calc.rows) =>
        LET u == Val(calc.rq)
            bal == Val(calc.rows)
            contribution(f) ==
                SumNet({ r \in participants : /\ r.user_email = u
                                              /\ expenses[r.shared_expense_id].created_by = f
                                              /\ Unsettled(r) })
                - SumNet({ r \in participants : /\ r.user_email = f
                                                /\ r.user_email # u
                                                /\ IsCreator(u, r.shared_expense_id)
                                                /\ Unsettled(r) })
        IN  /\ \A f \in Emails : Cardinality({ b \in bal : b.friend_email = f }) <= 1
            /\ \A b \in bal : b.balance = contribution(b.friend_email)

(* C15: the balances computed for a user never list the user as their own *)
(* counterparty.                                                           *)
NoBalanceWithOneself ==
    IsSome(calc.rows) =>
        \A b \in Val(calc.rows) : b.friend_email # Val(calc.rq)

(* C16: every two consecutive quote requests of a price refresh are       *)
(* separated by the pause of 12 seconds, whether the earlier of them       *)
(* succeeded or failed.                                                    *)
RequestsArePaced ==
    \A k \in 1..(Len(refresh.requests) - 1) :
        refresh.requests[k + 1].at - refresh.requests[k].at >= PauseSeconds

(* C17: when the quote of a symbol cannot be fetched, no stored price      *)
(* changes, one failed result is recorded for each investment of the       *)
(* symbol and the loop goes on to the next symbol; the response after the  *)
(* loop reports success, with every symbol requested once.                 *)
FailedQuoteDoesNotStopRefresh ==
    [][ /\ \A o \in QuoteOutcomes \ {"quote"} :
              FetchQuote(o, <<>>) =>
                LET symbol == refresh.symbols[refresh.i]
                    failed(rs) == Len(SelectSeq(rs,
                                    LAMBDA r : r.symbol = symbol /\ ~ r.success))
                    held == { k \in 1..Len(refresh.loaded) :
                                refresh.loaded[k].symbol = symbol }
                IN  /\ investments' = investments
                    /\ Len(refresh'.results) = Len(refresh.results) + Cardinality(held)
                    /\ failed(refresh'.results) =
                          failed(refresh.results) + Cardinality(held)
                    /\ refresh'.i = refresh.i + 1
                    /\ refresh'.response = None
        /\ Respond =>
              /\ Val(refresh'.response).success
              /\ Len(refresh.requests) = Len(refresh.symbols)
              /\ \A k \in 1..Len(refresh.symbols) :
                    refresh.requests[k].symbol = refresh.symbols[k] ]_vars

\* a run answered with success in which the first quote failed and a later one
\* was fetched and stored
FailedQuoteDoesNotStopRefreshWitness ==
    /\ IsSome(refresh.response)
    /\ Val(refresh.response).success
    /\ Val(refresh.response).updated > 0
    /\ Len(refresh.requests) = 2
    /\ ~ refresh.requests[1].ok
    /\ refresh.requests[2].ok
    /\ \E k \in 1..Len(investments) :
          /\ investments[k].symbol = refresh.requests[1].symbol
          /\ investments[k].current_price = PurchasePrice
    /\ \E k \in 1..Len(investments) :
          /\ investments[k].symbol = refresh.requests[2].symbol
          /\ investments[k].current_price = QuotePrice

(* C18: whenever the quote service is unavailable while a symbol is        *)
(* validated (HTTP error, network error, missing session or rate limit     *)
(* exceeded), the investment form stores the investment.                   *)
ValidationFailsOpen ==
    [][ \A symbol \in Symbols :
          \A o \in {"http_error", "network_error", "no_session", "rate_limited"} :
              handleInvestmentSubmit(symbol, o) =>
                /\ last'.ok
                /\ investments' = Append(investments,
                        [symbol |-> symbol, current_price |-> PurchasePrice]) ]_vars

\* the factors a list of share counts is multiplied by
ScaleFactors == {2, 3}

\* a shares request in which every participant names a positive share count
HasShareCounts(rq) ==
    /\ rq.method = "shares"
    /\ Len(rq.ps) > 0
    /\ \A i \in 1..Len(rq.ps) : IsSome(rq.ps[i].shares) /\ Val(rq.ps[i].shares) > 0

(* C20: in a shares split where every participant names a positive share  *)
(* count, a participant with k of T shares owes total * k / T, and         *)
(* multiplying every share count by the same factor leaves every amount    *)
(* owed unchanged.                                                         *)
SharesAreProportional ==
    (IsSome(calc.rows) /\ IsSome(calc.rq) /\ HasShareCounts(Val(calc.rq))) =>
        LET rq == Val(calc.rq)
            rows == Val(calc.rows)
            T == SumSeq([i \in 1..Len(rq.ps) |-> Val(rq.ps[i].shares)])
        IN  /\ \A i \in 1..Len(rq.ps) :
                  \E r \in rows :
                      /\ r.user_email = rq.ps[i].user_email
                      /\ r.amount_owed = Div(rq.total * Val(rq.ps[i].shares), T)
            /\ \A f \in ScaleFactors :
                  LET scaled == [i \in 1..Len(rq.ps) |->
                                    [rq.ps[i] EXCEPT !.shares =
                                        Some(f * Val(rq.ps[i].shares))]]
                      amounts == calculateParticipantAmounts(scaled, rq.total, "shares")
                  IN  \A i \in 1..Len(rq.ps) :
                          \E r \in rows :
                              /\ r.user_email = rq.ps[i].user_email
                              /\ Some(r.amount_owed) = amounts[i].amount_owed

\* 100.00 split 1 : 2 : 2, computed
SharesAreProportionalWitness ==
    /\ IsSome(calc.rows)
    /\ IsSome(calc.rq)
    /\ HasShareCounts(Val(calc.rq))
    /\ Val(calc.rq).total = 1000000
    /\ Len(Val(calc.rq).ps) = 3
    /\ Val(calc.rq).ps[1].shares = Some(1)
    /\ Val(calc.rq).ps[2].shares = Some(2)
    /\ Val(calc.rq).ps[3].shares = Some(2)
    /\ \E r \in Val(calc.rows) : r.amount_owed = 200000
    /\ \E r \in Val(calc.rows) : r.amount_owed = 400000

(* C19: whenever the shared-expense form calls createSharedExpense or     *)
(* updateSharedExpense, its participants are at least two distinct people, *)
(* with the percentage method their percentages sum to 100 within 0.01,    *)
(* and with the custom method their custom amounts sum to the total within *)
(* 0.01; the rows a successful call stores say the same.                   *)
FormCallsOnlyValidSplits ==
    [][ \A u \in PageUsers :
          ( handleFormSubmit(u) /\ last'.op \in {"create", "update"} ) =>
            LET emails == {u} \cup { form.selectedFriends[i] :
                                       i \in 1..Len(form.selectedFriends) }
                e == IF IsSome(form.expense) THEN Val(form.expense)
                     ELSE FreshExpenseId
                stored == { r \in participants' : r.shared_expense_id = e }
            IN  /\ Cardinality(emails) >= 2
                /\ form.splitMethod = "percentage" =>
                      Abs(SumEntries(form.percentages, emails) - PercentBase)
                          * PercentUnits <= Tolerance
                /\ form.splitMethod = "custom" =>
                      Abs(SumEntries(form.customAmounts, emails) - form.total)
                          <= Tolerance
                /\ last'.ok =>
                      /\ { r.user_email : r \in stored } = emails
                      /\ Cardinality(stored) = Cardinality(emails)
                      /\ form.splitMethod = "custom" =>
                            Abs(SumOwed(stored) - expenses'[e].total_amount)
                                <= Tolerance ]_vars

\* an edited expense stored with custom amounts of 50.005 each for a total of
\* 100.00, after which the page closed the form
FormCallsOnlyValidSplitsWitness ==
    /\ ~ form.open
    /\ last.op = "update"
    /\ last.ok
    /\ \E e \in DOMAIN expenses :
          /\ expenses[e].split_method = "custom"
          /\ expenses[e].total_amount = 1000000
          /\ Cardinality(ParticipantsOf(e)) = 2
          /\ SumOwed(ParticipantsOf(e)) = 1000100

(* C21: in a percentage split every participant owes total * percentage   *)
(* / 100, and 0 without a percentage; the calculation goes through         *)
(* whatever the percentages sum to, so that the amounts sum to that        *)
(* fraction of the total.                                                  *)
PercentageOfTotal ==
    (IsSome(calc.rq) /\ Val(calc.rq).method = "percentage") =>
        LET rq == Val(calc.rq)
            given == SumSeq([i \in 1..Len(rq.ps) |->
                               IF IsSome(rq.ps[i].percentage)
                               THEN Val(rq.ps[i].percentage) ELSE 0])
        IN  /\ ENABLED Calculate
            /\ IsSome(calc.rows) =>
                  /\ Cardinality(Val(calc.rows)) = Len(rq.ps)
                  /\ \A i \in 1..Len(rq.ps) :
                        \E r \in Val(calc.rows) :
                            /\ r.user_email = rq.ps[i].user_email
                            /\ r.amount_owed =
                                  IF IsSome(rq.ps[i].percentage)
                                  THEN Div(rq.total * Val(rq.ps[i].percentage), 100)
                                  ELSE 0
                  /\ SumOwed(Val(calc.rows)) * 100 = rq.total * given

\* 100 % and 10 % of 100.00: amounts that sum to 110.00
PercentageOfTotalWitness ==
    /\ IsSome(calc.rq)
    /\ IsSome(calc.rows)
    /\ Val(calc.rq).method = "percentage"
    /\ Val(calc.rq).total = 1000000
    /\ Len(Val(calc.rq).ps) = 2
    /\ Val(calc.rq).ps[1].percentage = Some(100)
    /\ Val(calc.rq).ps[2].percentage = Some(10)
    /\ SumOwed(Val(calc.rows)) = 1100000

(* C22: in an equal split with N >= 1 participants every row holds the    *)
(* same amount total / N, whatever percentage, share count or amount the   *)
(* participants came with.                                                 *)
EqualSplitIgnoresFields ==
    ( /\ IsSome(calc.rq)
      /\ IsSome(calc.rows)
      /\ Val(calc.rq).method = "equal"
      /\ Len(Val(calc.rq).ps) >= 1 ) =>
        /\ Cardinality(Val(calc.rows)) = Len(Val(calc.rq).ps)
        /\ \A r \in Val(calc.rows) :
              r.amount_owed = Div(Val(calc.rq).total, Len(Val(calc.rq).ps))

\* 100.00 split equally between participants who came with 25.00 and 100.00
EqualSplitIgnoresFieldsWitness ==
    /\ IsSome(calc.rq)
    /\ IsSome(calc.rows)
    /\ Val(calc.rq).method = "equal"
    /\ Val(calc.rq).total = 1000000
    /\ Len(Val(calc.rq).ps) = 2
    /\ Val(calc.rq).ps[1].amount_owed = Some(250000)
    /\ Val(calc.rq).ps[2].amount_owed = Some(1000000)
    /\ \A r \in Val(calc.rows) : r.amount_owed = 500000

(* C23: in a custom split every row holds exactly the amount the caller    *)
(* gave for the participant, and 0 when none was given, whatever the       *)
(* total; the calculation goes through whatever the amounts sum to.        *)
CustomAmountsAreStored ==
    (IsSome(calc.rq) /\ Val(calc.rq).method = "custom") =>
        /\ ENABLED Calculate
        /\ IsSome(calc.rows) =>
              /\ Cardinality(Val(calc.rows)) = Len(Val(calc.rq).ps)
              /\ \A i \in 1..Len(Val(calc.rq).ps) :
                    \E r \in Val(calc.rows) :
                        /\ r.user_email = Val(calc.rq).ps[i].user_email
                        /\ r.amount_owed =
                              IF IsSome(Val(calc.rq).ps[i].amount_owed)
                              THEN Val(Val(calc.rq).ps[i].amount_owed)
                              ELSE 0

\* a total of 0.01 with custom amounts of 100.00 and none
CustomAmountsAreStoredWitness ==
    /\ IsSome(calc.rq)
    /\ IsSome(calc.rows)
    /\ Val(calc.rq).method = "custom"
    /\ Val(calc.rq).total = 100
    /\ Len(Val(calc.rq).ps) = 2
    /\ Val(calc.rq).ps[1].amount_owed = Some(1000000)
    /\ Val(calc.rq).ps[2].amount_owed = None
    /\ SumOwed(Val(calc.rows)) = 1000000

CountedShares(p) == IF IsSome(p.shares) THEN Val(p.shares) ELSE 1

\* the rows of a shares request hold total * counted shares / their sum
CountedAsGiven(rq, rows) ==
    LET T == SumSeq([i \in 1..Len(rq.ps) |-> CountedShares(rq.ps[i])])
    IN  \A i \in 1..Len(rq.ps) :
            \E r \in rows :
                /\ r.user_email = rq.ps[i].user_email
                /\ T # 0
                /\ r.amount_owed = Div(rq.total * CountedShares(rq.ps[i]), T)

SettledAtIffCompleted ==
    \A id \in DOMAIN settlements :
        IsSome(settlements[id].settled_at) <=> settlements[id].status = "completed"

\* a settlement completed after the clock moved
SettledAtIffCompletedWitness ==
    \E id \in DOMAIN settlements :
        /\ settlements[id].status = "completed"
        /\ IsSome(settlements[id].settled_at)
        /\ Val(settlements[id].settled_at) >= 1

(* C27: whenever the settle-up dialog reports success, a participant      *)
(* record with the id it showed exists and is stored as settled with       *)
(* amount_paid equal to its amount_owed, also when the expense was edited  *)
(* or deleted after the dialog opened.                                     *)
SettleUpSuccessMeansSettled ==
    [][ \A u \in Users, o \in NotifyOutcomes :
          (handleSettleUp(u, o) /\ last'.ok) =>
              \E q \in participants' :
                  /\ q.id = Val(settleUpData[u]).participantId
                  /\ q.is_settled
                  /\ q.amount_paid = q.amount_owed ]_vars

(* C28: for two distinct users A and B, the balance of B in the balances  *)
(* computed for A is the exact negative of the balance of A in the         *)
(* balances computed for B.                                                *)
BalancesAreAntisymmetric ==
    IsSome(calc.rows) =>
        LET A == Val(calc.rq)
        IN  \A B \in Users \ {A} :
              /\ \A b \in Val(calc.rows) :
                    b.friend_email = B =>
                       \E c \in calculate_user_balance(B) :
                           c.friend_email = A /\ c.balance = 0 - b.balance
              /\ \A c \in calculate_user_balance(B) :
                    c.friend_email = A =>
                       \E b \in Val(calc.rows) :
                           b.friend_email = B /\ b.balance = 0 - c.balance

(* C29: for every split method and every participant list the form       *)
(* submits, the amount the form computed for a participant is the amount   *)
(* the service recomputes from the submitted data, and the amount stored.  *)
FormAmountsAreStored ==
    [][ \A u \in PageUsers :
          ( handleFormSubmit(u) /\ last'.op \in {"create", "update"} ) =>
            LET shown == participantsWithAmounts(form)
                again == calculateParticipantAmounts(shown, form.total, form.splitMethod)
                e == IF IsSome(form.expense) THEN Val(form.expense)
                     ELSE FreshExpenseId
                stored == { r \in participants' : r.shared_expense_id = e }
            IN  /\ \A i \in 1..Len(shown) : again[i].amount_owed = shown[i].amount_owed
                /\ last'.ok =>
                      \A i \in 1..Len(shown) :
                          \E r \in stored :
                              /\ r.user_email = shown[i].user_email
                              /\ Some(r.amount_owed) = shown[i].amount_owed ]_vars

\* a new expense of 100.00 stored with one share against two
FormAmountsAreStoredWitness ==
    /\ ~ form.open
    /\ last.op = "create"
    /\ last.ok
    /\ \E e \in DOMAIN expenses :
          /\ expenses[e].split_method = "shares"
          /\ \E r \in ParticipantsOf(e) : r.amount_owed = 333333
          /\ \E r \in ParticipantsOf(e) : r.amount_owed = 666667

(* C30: createSharedExpense attempts notifications only when the expense  *)
(* and all its participant records were stored; it makes one attempt for   *)
(* each participant whose e-mail differs from the creator's and none for   *)
(* the creator, and goes on with the remaining attempts after a failed     *)
(* one.                                                                    *)
NotificationsFollowStorage ==
    [][ \A u \in Users, rq \in NotifyRequests :
          createSharedExpense(u, rq.total, rq.method, rq.ps) =>
            LET others == { i \in 1..Len(rq.ps) : rq.ps[i].user_email # u }
                e == FreshExpenseId
                stored == { r \in participants' : r.shared_expense_id = e }
            IN  /\ last'.notified # <<>> =>
                      /\ last'.ok
                      /\ e \in DOMAIN expenses'
                      /\ Cardinality(stored) = Len(rq.ps)
                /\ last'.ok => Len(last'.notified) = Cardinality(others)
                /\ ~ last'.ok => last'.notified = <<>> ]_vars

\* two participants besides the creator: the first attempt failed, the second
\* was sent
NotificationsFollowStorageWitness ==
    /\ last.op = "create"
    /\ last.ok
    /\ Len(last.notified) = 2
    /\ last.notified[1] = "http_error"
    /\ last.notified[2] = "sent"
    /\ \E e \in DOMAIN expenses : Cardinality(ParticipantsOf(e)) = 3

====
